---- MODULE Spec2Model ----
(***************************************************************************)
(* The FlagScatter component (src/components/FlagScatter.tsx): a round of  *)
(* flags bouncing inside a rotating ring with a gap, the per-frame physics *)
(* and elimination loop, the formation -> scatter timer, the win handler,  *)
(* the leaderboard and the automatic restart timer.                        *)
(*                                                                         *)
(* Angles are integers counted in tenths of a degree, so that the ring's   *)
(* 0.8 degrees per frame is exact.  The floating-point positions and       *)
(* velocities of the flags are not state of the model: what a frame needs  *)
(* of them (whether a flag reached the boundary and at which angle,        *)
(* whether an exiting flag passed the vanish radius) is an input of the    *)
(* frame, drawn from Events.                                               *)
(*                                                                         *)
(* The effect of lines 214-219 follows React's contract for effects: its   *)
(* cleanup runs on teardown, and the setup may run again on the same refs  *)
(* afterwards (Strict Mode, Fast Refresh, a hidden and re-shown subtree).  *)
(***************************************************************************)
EXTENDS Integers, Sequences, FiniteSets, TLC

\* ---------------------------------------------------------------- bounds
\* Size of the roster (countriesList has 50 entries in the source).
NumFlags == 2
\* Number of calls of initializeGame a behaviour may hold.
MaxRounds == 3
\* Number of frames that process participants within one round.
MaxFrames == 2
\* normalizeAngle is applied to angles of at most this many full turns.
MaxTurns == 2

\* ------------------------------------------------------------- constants
Deg(d) == d * 10
\* ROTATION_SPEED = 0.8 degrees per frame, in tenths of a degree.
ROTATION_SPEED == 8
\* GAP_TOLERANCE = 4 degrees.
GAP_TOLERANCE == Deg(4)
\* gapDegrees = 45 (initializeGame).
gapDegrees == 45

\* countriesList: the roster, a list of codes (the name follows the code).
countriesList == [i \in 1..NumFlags |-> i]

\* null (winner state, potentialWinner, startTimeoutRef.current).
Null == 0

VARIABLES
  mounted,          \* the effects of the component are set up
  flags,            \* physicsRef.current.flags: sequence of [code, status]
  uiFlags,          \* React state `flags`
  winner,           \* React state `winner`: a code, or Null
  leaderboard,      \* React state `leaderboard`: sequence of [code, wins]
  ringAngle,        \* physicsRef.current.ringAngle
  isRunning,        \* physicsRef.current.isRunning
  phase,            \* physicsRef.current.phase
  gapStart,         \* physicsRef.current.gapStart
  gapEnd,           \* physicsRef.current.gapEnd
  startTimeoutRef,  \* startTimeoutRef.current: handle of a start timer, or Null
  timers,           \* pending setTimeout callbacks: [kind, round]
  round,            \* history: number of initializeGame calls so far
  winsInRound,      \* history: win handler invocations since initializeGame
  winHistory,       \* history: code -> number of rounds it was declared winner
  gapHits,          \* history: boundary events inside the live gap, last frame
  exits,            \* history: flags set to exiting in the last frame
  cancelledStart,   \* history: the pending start timer that the last
                    \* initializeGame call cancelled, or Null
  roster,           \* the countriesList the component is built with
  probe             \* argument and result of a pure helper under test

vars == <<mounted, flags, uiFlags, winner, leaderboard, ringAngle, isRunning,
          phase, gapStart, gapEnd, startTimeoutRef, timers, round,
          winsInRound, winHistory, gapHits, exits, cancelledStart,
          roster, probe>>

\* The fields of physicsRef.current and the React state of a round.
roundState == <<flags, uiFlags, winner, ringAngle, isRunning, phase,
                gapStart, gapEnd>>

\* ------------------------------------------------------------- helpers
\* JavaScript's % : the remainder takes the sign of the dividend.
JsRem(a, n) == IF a >= 0 THEN a % n ELSE 0 - ((0 - a) % n)

normalizeAngle_NoFix(angle) == JsRem(angle, Deg(360))

\* Lines 38-42.
normalizeAngle(angle) ==
  LET a == JsRem(angle, Deg(360))
  IN  IF a < 0 THEN a + Deg(360) ELSE a

isInsideGap_NoWrap(flagAngle, gapS, gapE, ringAng) ==
  /\ flagAngle >= normalizeAngle(gapS + ringAng - GAP_TOLERANCE)
  /\ flagAngle <= normalizeAngle(gapE + ringAng + GAP_TOLERANCE)

\* Lines 288-296: the gap test of a boundary event.
isInsideGap(flagAngle, gapS, gapE, ringAng) ==
  LET currentGapStart == normalizeAngle(gapS + ringAng - GAP_TOLERANCE)
      currentGapEnd   == normalizeAngle(gapE + ringAng + GAP_TOLERANCE)
  IN  IF currentGapStart < currentGapEnd
      THEN flagAngle >= currentGapStart /\ flagAngle <= currentGapEnd
      ELSE flagAngle >= currentGapStart \/ flagAngle <= currentGapEnd

\* The angles at which a flag may reach the boundary in a frame.
FlagAngles == {Deg(180), Deg(340)}
\* What a frame learns of one flag's position: no boundary reached ("none"),
\* the boundary reached at an angle, or (exiting) the vanish radius passed.
Events ==
  {[kind |-> "none", angle |-> 0], [kind |-> "far", angle |-> 0]}
    \cup {[kind |-> "hit", angle |-> a] : a \in FlagAngles}

\* The outcomes of [...list].sort(() => Math.random() - 0.5): the
\* permutations of the list.
Shuffles(list) ==
  {[i \in DOMAIN list |-> list[p[i]]] :
     p \in {q \in [DOMAIN list -> DOMAIN list] :
              \A i, j \in DOMAIN list : q[i] = q[j] => i = j}}

\* The events that make a difference to a flag of the given status in the
\* given phase: a frame of the formation phase reads no position, an active
\* flag is only tested against the boundary, an exiting one only against
\* the vanish radius.
EventsFor(status, ph) ==
  IF ph = "formation" \/ status \notin {"active", "exiting"}
  THEN {e \in Events : e.kind = "none"}
  ELSE IF status = "active" THEN {e \in Events : e.kind # "far"}
  ELSE {e \in Events : e.kind # "hit"}

ActiveCount(fs) == Cardinality({i \in DOMAIN fs : fs[i].status = "active"})


\* ------------------------------------------------------- initializeGame
\* Line 140: if (startTimeoutRef.current) clearTimeout(startTimeoutRef.current).
clearStartTimeout_Skipped(tmrs, ref) == tmrs

clearStartTimeout(tmrs, ref) ==
  IF ref # Null
  THEN {t \in tmrs : ~(t.kind = "start" /\ t.round = ref)}
  ELSE tmrs

\* Lines 167-189: every flag of the shuffled list starts active.
initialFlags(shuffledList) ==
  [i \in 1..Len(shuffledList) |-> [code |-> shuffledList[i], status |-> "active"]]

gapStartOf_Default(deg) == Deg(306)

\* Line 160: physicsRef.current.gapStart = 360 - gapDegrees.
gapStartOf(deg) == Deg(360 - deg)

resetRingAngle_Kept(old) == old

\* Lines 149-150: the reset of the ring angle.
resetRingAngle(old) == 0

\* Lines 139-211.  `tmrs` are the timers pending when the call starts.  The
\* start timer it schedules is named by the round it is scheduled in.
initializeGame(tmrs) ==
  /\ round < MaxRounds
  /\ \E shuffledList \in Shuffles(roster) :
       /\ flags' = initialFlags(shuffledList)
       /\ uiFlags' = initialFlags(shuffledList)
  /\ winner' = Null
  /\ isRunning' = TRUE
  /\ phase' = "formation"
  /\ ringAngle' = resetRingAngle(ringAngle)
  /\ gapStart' = gapStartOf(gapDegrees)
  /\ gapEnd' = Deg(360)
  /\ timers' = clearStartTimeout(tmrs, startTimeoutRef)
                 \cup {[kind |-> "start", round |-> round + 1]}
  /\ startTimeoutRef' = round + 1
  /\ round' = round + 1
  /\ winsInRound' = 0
  /\ gapHits' = 0
  /\ exits' = 0
  /\ cancelledStart' =
       IF [kind |-> "start", round |-> startTimeoutRef] \in tmrs
       THEN startTimeoutRef ELSE Null
  /\ UNCHANGED <<leaderboard, winHistory, roster, probe>>

\* ----------------------------------------------------------- the frame
shouldEliminate_Ungated(inside, activeCount) == inside

shouldEliminate_ByTotal(inside, activeCount) ==
  inside /\ ActiveCount(flags) > 1

\* Line 298: the gate on an elimination.
shouldEliminate(inside, activeCount) == inside /\ activeCount > 1

\* Lines 234-337: the body of the forEach for the flag at position i, on the
\* accumulator [flags, activeCount, potentialWinner, gapHits, exits].
visitFlag(acc, i, e, ph, gapS, gapE, ringAng) ==
  LET flag == acc.flags[i]
      isActive == flag.status = "active"
      n == IF isActive THEN acc.activeCount + 1 ELSE acc.activeCount
      w == IF isActive THEN flag.code ELSE acc.potentialWinner
      counted == [acc EXCEPT !.activeCount = n, !.potentialWinner = w]
  IN  IF flag.status = "eliminated" THEN acc
      ELSE IF ph = "formation" THEN counted
      ELSE IF isActive /\ e.kind = "hit"
        THEN LET inside == isInsideGap(e.angle, gapS, gapE, ringAng)
                 hit == [counted EXCEPT !.gapHits = @ + (IF inside THEN 1 ELSE 0)]
             IN  IF shouldEliminate(inside, n)
                 THEN [hit EXCEPT !.flags[i].status = "exiting", !.exits = @ + 1]
                 ELSE hit
      ELSE IF flag.status = "exiting" /\ e.kind = "far"
        THEN [counted EXCEPT !.flags[i].status = "eliminated"]
      ELSE counted

RECURSIVE forEachFlag(_, _, _, _, _, _, _)
forEachFlag(acc, i, ev, ph, gapS, gapE, ringAng) ==
  IF i > Len(acc.flags) THEN acc
  ELSE forEachFlag(visitFlag(acc, i, ev[i], ph, gapS, gapE, ringAng),
                   i + 1, ev, ph, gapS, gapE, ringAng)

winnerCheck_CandidateOnly(ph, activeCount, potentialWinner, running) ==
  potentialWinner # Null

winnerCheck_AnyActive(ph, activeCount, potentialWinner, running) ==
  ph = "scatter" /\ activeCount >= 1 /\ potentialWinner # Null /\ running

\* Line 341: the winner check.
winnerCheck(ph, activeCount, potentialWinner, running) ==
  ph = "scatter" /\ activeCount = 1 /\ potentialWinner # Null /\ running

runningAfterWin_Kept(running) == running

\* Line 342: the running flag once the winner check passed.
runningAfterWin(running) == FALSE

\* Line 357: newState.sort((a, b) => b.wins - a.wins), a stable sort.
insertByWins(s, e) ==
  LET k == Cardinality({j \in DOMAIN s : s[j].wins >= e.wins})
  IN  SubSeq(s, 1, k) \o <<e>> \o SubSeq(s, k + 1, Len(s))

sortByWins_Unsorted(s) == s

RECURSIVE sortByWins(_)
sortByWins(s) ==
  IF Len(s) = 0 THEN s
  ELSE insertByWins(sortByWins(SubSeq(s, 1, Len(s) - 1)), s[Len(s)])

updateLeaderboard_AlwaysAppend(prev, w) ==
  sortByWins(Append(prev, [code |-> w, wins |-> 1]))

\* Lines 348-358: the updater given to setLeaderboard.
updateLeaderboard(prev, w) ==
  LET existing == \E j \in DOMAIN prev : prev[j].code = w
      newState ==
        IF existing
        THEN [j \in DOMAIN prev |->
                IF prev[j].code = w
                THEN [prev[j] EXCEPT !.wins = @ + 1] ELSE prev[j]]
        ELSE Append(prev, [code |-> w, wins |-> 1])
  IN  sortByWins(newState)

finalFlags_ByStatus(fs, w) ==
  [j \in DOMAIN fs |->
     IF fs[j].status # "eliminated" THEN [fs[j] EXCEPT !.status = "winner"] ELSE fs[j]]

finalFlags_Unmarked(fs, w) == fs

\* Lines 360-362: finalFlags.
finalFlags(fs, w) ==
  [j \in DOMAIN fs |->
     IF fs[j].code = w THEN [fs[j] EXCEPT !.status = "winner"] ELSE fs[j]]

scheduleRestart_Dropped(tmrs, r) == tmrs

\* Lines 367-369: setTimeout(() => initializeGame(), 5000); the handle is
\* not kept.
scheduleRestart(tmrs, r) == tmrs \cup {[kind |-> "restart", round |-> r]}

\* Lines 222-371: one call of the useAnimationFrame callback, with the
\* positions of the flags given by ev.
frameStep(ev) ==
  LET ringAng == (ringAngle + ROTATION_SPEED) % Deg(360)
      acc0 == [flags |-> flags, activeCount |-> 0, potentialWinner |-> Null,
               gapHits |-> 0, exits |-> 0]
      acc == forEachFlag(acc0, 1, ev, phase, gapStart, gapEnd, ringAng)
  IN  /\ ringAngle' = ringAng
      /\ flags' = acc.flags
      /\ gapHits' = acc.gapHits
      /\ exits' = acc.exits
      /\ IF winnerCheck(phase, acc.activeCount, acc.potentialWinner, isRunning)
         THEN /\ isRunning' = runningAfterWin(isRunning)
              /\ winner' = acc.potentialWinner
              /\ leaderboard' = updateLeaderboard(leaderboard, acc.potentialWinner)
              /\ uiFlags' = finalFlags(acc.flags, acc.potentialWinner)
              /\ timers' = scheduleRestart(timers, round)
              /\ winsInRound' = winsInRound + 1
              /\ winHistory' = [winHistory EXCEPT ![acc.potentialWinner] = @ + 1]
         ELSE /\ uiFlags' = acc.flags
              /\ UNCHANGED <<isRunning, winner, leaderboard, timers,
                             winsInRound, winHistory>>
      /\ UNCHANGED <<mounted, phase, gapStart, gapEnd, startTimeoutRef, round,
                     cancelledStart, roster, probe>>

frameReturnsEarly_NoRunningCheck(running, fs) == Len(fs) = 0

\* Line 223: the callback returns at once when the round is not running or
\* there is no flag.
frameReturnsEarly(running, fs) == ~running \/ Len(fs) = 0

\* Lines 222-371.  Frames are delivered only while the component is mounted.
\* MaxFrames bounds the frames of a running round.
Frame ==
  /\ mounted
  /\ IF frameReturnsEarly(isRunning, flags)
     THEN UNCHANGED vars
     ELSE /\ isRunning => ringAngle < MaxFrames * ROTATION_SPEED
          /\ \E ev \in [DOMAIN flags -> Events] :
               /\ \A i \in DOMAIN flags : ev[i] \in EventsFor(flags[i].status, phase)
               /\ frameStep(ev)

\* ---------------------------------------------------------- the timers
\* Lines 207-209: the callback of the start timer.
StartTimerFire ==
  \E t \in timers :
    /\ t.kind = "start"
    /\ timers' = timers \ {t}
    /\ phase' = "scatter"
    /\ UNCHANGED <<mounted, flags, uiFlags, winner, leaderboard, ringAngle,
                   isRunning, gapStart, gapEnd, startTimeoutRef, round,
                   winsInRound, winHistory, gapHits, exits, cancelledStart,
                   roster, probe>>

\* Lines 367-369: the callback of the restart timer.
RestartTimerFire ==
  \E t \in timers :
    /\ t.kind = "restart"
    /\ initializeGame(timers \ {t})
    /\ UNCHANGED mounted

\* ---------------------------------------------------------- the effect
\* Lines 214-215: the setup of the effect.
MountEffect ==
  /\ ~mounted
  /\ mounted' = TRUE
  /\ initializeGame(timers)

\* Lines 216-218: the cleanup of the effect.
EffectCleanup ==
  /\ mounted
  /\ mounted' = FALSE
  /\ timers' = clearStartTimeout(timers, startTimeoutRef)
  /\ UNCHANGED <<flags, uiFlags, winner, leaderboard, ringAngle, isRunning,
                 phase, gapStart, gapEnd, startTimeoutRef, round,
                 winsInRound, winHistory, gapHits, exits, cancelledStart,
                 roster, probe>>

\* No helper under test.
NoProbe == [fn |-> "none"]

\* Lines 101-136: the state after the first render, before the effects, of
\* a component built with the roster `list`.
InitWith(list, pr) ==
  /\ roster = list
  /\ probe = pr
  /\ mounted = FALSE
  /\ flags = <<>>
  /\ uiFlags = <<>>
  /\ winner = Null
  /\ leaderboard = <<>>
  /\ ringAngle = 0
  /\ isRunning = TRUE
  /\ phase = "formation"
  /\ gapStart = Deg(306)
  /\ gapEnd = Deg(360)
  /\ startTimeoutRef = Null
  /\ timers = {}
  /\ round = 0
  /\ winsInRound = 0
  /\ winHistory = [c \in 1..NumFlags |-> 0]
  /\ gapHits = 0
  /\ exits = 0
  /\ cancelledStart = Null

Init == InitWith(countriesList, NoProbe)

Next ==
  \/ MountEffect
  \/ EffectCleanup
  \/ Frame
  \/ StartTimerFire
  \/ RestartTimerFire

Spec == Init /\ [][Next]_vars

\* A timer that setTimeout has scheduled and that nothing clears fires after
\* its delay: the callback of a pending restart timer is eventually run.
FairSpec == Spec /\ WF_vars(RestartTimerFire)

\* The component built with a roster of no or one participant.
SmallRosters == {SubSeq(countriesList, 1, n) : n \in 0..1}

SmallRosterInit == \E list \in SmallRosters : InitWith(list, NoProbe)

SmallRosterSpec == SmallRosterInit /\ [][Next]_vars

\* ---------------------------------------------- the helpers on their own
\* normalizeAngle applied to an angle x, and the gap test applied to a flag
\* angle, a gap and a ring angle: the argument is drawn in the initial state
\* and one step applies the helper.
NormalizeProbes ==
  {[fn |-> "normalizeAngle", x |-> x, flagAngle |-> 0, gapS |-> 0, gapE |-> 0,
    ringAng |-> 0, done |-> FALSE, angle |-> 0, inside |-> FALSE] :
     x \in (0 - MaxTurns * Deg(360)) .. (MaxTurns * Deg(360))}

\* The ring angles the frames produce: multiples of ROTATION_SPEED in [0,360).
RingAngles == {ROTATION_SPEED * n : n \in 0 .. (Deg(360) \div ROTATION_SPEED) - 1}
\* Flag angles in [0,360), every 5 degrees.
ProbeFlagAngles == {Deg(5) * n : n \in 0 .. 71}
\* The gap of initializeGame, and the gap [340, 360).
ProbeGaps == {<<Deg(360 - gapDegrees), Deg(360)>>, <<Deg(340), Deg(360)>>}

GapProbes ==
  {[fn |-> "isInsideGap", x |-> 0, flagAngle |-> a, gapS |-> g[1], gapE |-> g[2],
    ringAng |-> r, done |-> FALSE, angle |-> 0, inside |-> FALSE] :
     a \in ProbeFlagAngles, g \in ProbeGaps, r \in RingAngles}

PureInit ==
  \E pr \in NormalizeProbes \cup GapProbes : InitWith(countriesList, pr)

ApplyNormalize ==
  /\ probe.fn = "normalizeAngle"
  /\ ~probe.done
  /\ probe' = [probe EXCEPT !.done = TRUE, !.angle = normalizeAngle(probe.x)]
  /\ UNCHANGED <<mounted, flags, uiFlags, winner, leaderboard, ringAngle,
                 isRunning, phase, gapStart, gapEnd, startTimeoutRef, timers,
                 round, winsInRound, winHistory, gapHits, exits,
                 cancelledStart, roster>>

ApplyGapTest ==
  /\ probe.fn = "isInsideGap"
  /\ ~probe.done
  /\ probe' = [probe EXCEPT
                 !.done = TRUE,
                 !.inside = isInsideGap(probe.flagAngle, probe.gapS,
                                        probe.gapE, probe.ringAng)]
  /\ UNCHANGED <<mounted, flags, uiFlags, winner, leaderboard, ringAngle,
                 isRunning, phase, gapStart, gapEnd, startTimeoutRef, timers,
                 round, winsInRound, winHistory, gapHits, exits,
                 cancelledStart, roster>>

PureNext ==
  \/ ApplyNormalize
  \/ ApplyGapTest

PureSpec == PureInit /\ [][PureNext]_vars

\* ------------------------------------------------------------ claims
StartTimers == {t \in timers : t.kind = "start"}
RestartTimers == {t \in timers : t.kind = "restart"}
WithStatus(fs, st) == {i \in DOMAIN fs : fs[i].status = st}
Codes == {countriesList[i] : i \in DOMAIN countriesList}

\* C1: in every round at most one participant is declared winner, and when
\* the win handler has run the declared participant is the only one whose
\* status in the physics state is active (all others exiting or eliminated).
C1_SingleWinner ==
  /\ Cardinality(WithStatus(uiFlags, "winner")) <= 1
  /\ winner # Null =>
       /\ \A i \in DOMAIN flags :
            (flags[i].status = "active") <=> (flags[i].code = winner)
       /\ \A i \in DOMAIN uiFlags :
            (uiFlags[i].status = "winner") <=> (uiFlags[i].code = winner)
       /\ \A i \in DOMAIN flags :
            flags[i].code # winner => flags[i].status \in {"exiting", "eliminated"}

C1_Witness ==
  /\ winner # Null
  /\ Cardinality(WithStatus(flags, "active")) = 1
  /\ WithStatus(flags, "exiting") # {}
  /\ WithStatus(uiFlags, "winner") # {}

\* C2: the number of active participants never drops to zero during a
\* round; and when exactly two participants were active and both reached the
\* boundary inside the live gap in the same frame, exactly one of them
\* became exiting and the other stayed active.
C2_NeverZeroActive ==
  /\ round > 0 => ActiveCount(flags) >= 1
  /\ (ActiveCount(flags) + exits = 2 /\ gapHits = 2) =>
       (exits = 1 /\ ActiveCount(flags) = 1)

C2_Witness ==
  /\ gapHits = 2
  /\ exits = 1
  /\ ActiveCount(flags) = 1
  /\ phase = "scatter"

\* C3: a restart timer scheduled by the win of an earlier round never fires
\* into a later round: when a restart timer of another round than the
\* current one leaves the pending timers, no new round is initialized.
C3_NoStaleRestart ==
  [][\A t \in timers :
       (t.kind = "restart" /\ t.round # round /\ t \notin timers')
         => (round' = round /\ UNCHANGED roundState)]_vars

\* C4: after teardown no deferred callback fires and no round state is
\* mutated or reinitialized: while the component stays torn down, the pending
\* timers and the round state do not change.
C4_TeardownCancelsAll ==
  [][(round > 0 /\ ~mounted /\ ~mounted')
       => UNCHANGED <<timers, roundState, round>>]_vars

\* C5: at most one phase-transition timer is pending at any time, it is the
\* one of the current round (an earlier round's timer was cancelled and never
\* fires), and a round leaves formation only when its own timer has fired.
C5_OneStartTimer ==
  /\ Cardinality(StartTimers) <= 1
  /\ \A t \in StartTimers : t.round = round /\ startTimeoutRef = round
  /\ phase = "scatter" => StartTimers = {}
  /\ (mounted /\ phase = "formation") =>
       StartTimers = {[kind |-> "start", round |-> round]}

C5_Witness ==
  /\ cancelledStart # Null
  /\ cancelledStart = round - 1
  /\ mounted
  /\ phase = "formation"
  /\ StartTimers = {[kind |-> "start", round |-> round]}

\* C6: the win handler fires at most once per round: the round is running
\* exactly as long as the handler has not fired in it, and it never fires a
\* second time.
C6_WinOncePerRound ==
  /\ winsInRound <= 1
  /\ isRunning <=> winsInRound = 0
  /\ winsInRound = 0 => [kind |-> "restart", round |-> round] \notin timers

C6_Witness ==
  /\ mounted
  /\ ~isRunning
  /\ winsInRound = 1
  /\ [kind |-> "restart", round |-> round] \in timers

\* C7: every round started in formation eventually enters scatter and ends
\* with a winner being declared; so a round that frames keep driving is
\* never replaced by a new round before its winner has been declared.
C7_RoundRunsToItsWinner ==
  [][(mounted /\ mounted' /\ round' # round) => winner # Null]_vars

\* C8: the leaderboard holds at most one entry per code, each entry's win
\* count is the number of rounds that code has won, and every code that has
\* won a round has an entry (so the counts sum to the rounds completed).
C8_LeaderboardCounts ==
  /\ \A j, k \in DOMAIN leaderboard :
       leaderboard[j].code = leaderboard[k].code => j = k
  /\ \A j \in DOMAIN leaderboard :
       leaderboard[j].wins = winHistory[leaderboard[j].code]
  /\ \A c \in Codes :
       winHistory[c] > 0 => \E j \in DOMAIN leaderboard : leaderboard[j].code = c

C8_Witness ==
  \E a, b \in Codes :
    /\ a # b
    /\ winHistory[a] = 2
    /\ winHistory[b] = 1
    /\ \E j, k \in DOMAIN leaderboard :
         /\ leaderboard[j] = [code |-> a, wins |-> 2]
         /\ leaderboard[k] = [code |-> b, wins |-> 1]

\* C9: the leaderboard is ordered by win count descending: no entry is
\* followed by an entry with a strictly larger win count.
C9_LeaderboardSorted ==
  \A j, k \in DOMAIN leaderboard :
    j < k => leaderboard[j].wins >= leaderboard[k].wins

C9_Witness ==
  /\ Len(leaderboard) = 2
  /\ leaderboard[1].wins > leaderboard[2].wins
  /\ winner = leaderboard[1].code

\* C10: immediately after initializeGame the phase is formation, the ring
\* angle 0, the round running, the gap the local interval [315, 360) and
\* every participant of the roster active, whatever the state before.
C10_StartRoundResets ==
  [][round' # round =>
       /\ phase' = "formation"
       /\ ringAngle' = 0
       /\ isRunning'
       /\ gapStart' = Deg(315)
       /\ gapEnd' = Deg(360)
       /\ Len(flags') = NumFlags
       /\ \A i \in DOMAIN flags' : flags'[i].status = "active"]_vars

C10_Witness ==
  /\ round >= 2
  /\ phase = "formation"
  /\ ringAngle = 0
  /\ isRunning
  /\ winner = Null
  /\ leaderboard # <<>>
  /\ RestartTimers = {}
  /\ \A i \in DOMAIN flags : flags[i].status = "active"

\* C11: a frame invoked while the round is not running, or while there is
\* no participant, changes nothing: a step that is neither a timer firing
\* nor the effect leaves ring angle, phase, gap, every status and the
\* leaderboard unchanged when it starts in such a state.
C11_IdleFrameNoOp ==
  [][(mounted /\ mounted' /\ (~isRunning \/ Len(flags) = 0)
        /\ timers' = timers /\ round' = round)
       => UNCHANGED <<ringAngle, phase, gapStart, gapEnd, flags, uiFlags,
                      winner, isRunning, leaderboard>>]_vars

C11_Witness ==
  /\ mounted
  /\ ~isRunning
  /\ Len(flags) > 0
  /\ ringAngle > 0
  /\ ENABLED Frame

\* C12: the win handler is invoked only in scatter phase with the round
\* running: no winner is declared in formation or while running = false.
C12_WinOnlyInRunningScatter ==
  [][(winsInRound' > winsInRound \/ (winner' # Null /\ winner' # winner)
        \/ leaderboard' # leaderboard)
       => (phase = "scatter" /\ isRunning /\ phase' = "scatter")]_vars

C12_Witness ==
  /\ winsInRound = 1
  /\ winner # Null
  /\ phase = "scatter"
  /\ leaderboard # <<>>
  /\ ActiveCount(flags) = 1

OnArc(a, s, w) == ((a - s) % Deg(360)) <= w

\* C14: for every ring angle and every flag angle in [0,360) the gap test
\* answers inside exactly when the angle lies on the arc from
\* gapStart + ringAngle - tolerance to gapEnd + ringAngle + tolerance taken
\* modulo 360, also when that arc crosses 0/360.
C14_GapTestIsArcMembership ==
  (probe.fn = "isInsideGap" /\ probe.done) =>
    (probe.inside <=>
       OnArc(probe.flagAngle, probe.gapS + probe.ringAng - GAP_TOLERANCE,
             probe.gapE - probe.gapS + 2 * GAP_TOLERANCE))

\* Gap [340,360), tolerance 4, ring angle 0: 350 is found inside, across the
\* wrap-around (the live gap runs from 336 to 4).
C14_Witness ==
  /\ probe.fn = "isInsideGap"
  /\ probe.done
  /\ probe.gapS = Deg(340)
  /\ probe.ringAng = 0
  /\ probe.flagAngle = Deg(350)
  /\ probe.inside

Forward(a, b) ==
  \/ a = b
  \/ a = "active" /\ b = "exiting"
  \/ a = "exiting" /\ b = "eliminated"
  \/ a = "active" /\ b = "winner"

C16_StatusMovesForward ==
  [][round' = round =>
       /\ DOMAIN flags' = DOMAIN flags
       /\ DOMAIN uiFlags' = DOMAIN uiFlags
       /\ \A i \in DOMAIN flags :
            /\ Forward(flags[i].status, flags'[i].status)
            /\ Forward(uiFlags[i].status, uiFlags'[i].status)]_vars

C16_Witness ==
  /\ WithStatus(flags, "eliminated") # {}
  /\ WithStatus(uiFlags, "eliminated") # {}
  /\ WithStatus(uiFlags, "winner") # {}

\* C17: when the win handler has run in the round, the survivor (the one
\* participant still active in the physics state) has status winner in the
\* participant state given to setFlags, no other participant has status
\* winner there, and the others are as the physics state has them; before
\* the handler has run no participant has status winner.
C17_SurvivorMarkedWinner ==
  /\ winsInRound >= 1 =>
       \E i \in DOMAIN uiFlags :
         /\ uiFlags[i].status = "winner"
         /\ flags[i].status = "active"
         /\ uiFlags[i].code = flags[i].code
         /\ \A j \in DOMAIN uiFlags : j # i =>
              (uiFlags[j].status # "winner" /\ uiFlags[j] = flags[j])
  /\ winsInRound = 0 => WithStatus(uiFlags, "winner") = {}

C17_Witness ==
  /\ round >= 2
  /\ winsInRound = 1
  /\ ~isRunning
  /\ Cardinality(WithStatus(uiFlags, "winner")) = 1

\* C18: after a win the round state stays frozen with isRunning false as
\* long as the round lasts and the restart timer of the round is pending;
\* a restart timer is scheduled only by the win of the current round and
\* leaves the pending timers only by running initializeGame, once; and if
\* after a win a new round is eventually started (by that timer, unless
\* something else starts one first).
C18_RestartAfterWin ==
  /\ [](winsInRound = 1 =>
          (~isRunning /\ [kind |-> "restart", round |-> round] \in timers))
  /\ [][(~isRunning /\ round' = round) => UNCHANGED roundState]_vars
  /\ [][\A r \in 1 .. MaxRounds :
          LET t == [kind |-> "restart", round |-> r]
          IN  /\ (t \in timers /\ t \notin timers') => round' = round + 1
              /\ (t \notin timers /\ t \in timers') =>
                   (r = round /\ winsInRound = 0 /\ winsInRound' = 1)]_vars
  /\ (winsInRound = 1 /\ round < MaxRounds) ~> (winsInRound = 0)

C18_Witness ==
  /\ round >= 2
  /\ winsInRound = 0
  /\ phase = "formation"
  /\ winHistory # [c \in 1 .. NumFlags |-> 0]
  /\ RestartTimers = {}
  /\ cancelledStart = Null

\* C19: whenever there are participants for the frame loop to process, the
\* gap is gapDegrees (45 degrees) wide, and within a round no step (frame,
\* timer or cleanup) changes gapStart or gapEnd: only initializeGame writes
\* them.
C19_GapWidthFixed ==
  /\ [](Len(flags) > 0 => gapEnd - gapStart = Deg(45))
  /\ [][round' = round => UNCHANGED <<gapStart, gapEnd>>]_vars

C19_Witness ==
  /\ mounted
  /\ isRunning
  /\ phase = "scatter"
  /\ ringAngle > 0
  /\ WithStatus(flags, "exiting") # {}
  /\ gapEnd - gapStart = Deg(45)

\* C20: in scatter, an active participant that reaches the boundary inside
\* the live gap while more than one participant is active is eliminated in
\* that frame: after a frame that more than one active participant entered
\* and in which exactly one of them hit the boundary inside the gap, that
\* participant has become exiting.
C20_GapHitEliminates ==
  (phase = "scatter" /\ ActiveCount(flags) + exits > 1 /\ gapHits = 1)
    => exits = 1

\* C21: every participant that enters status exiting during a round
\* reaches status eliminated in that same round; so a round that has been
\* won is never replaced by the next round while one of its participants
\* is still exiting.
C21_ExitingGetsEliminated ==
  [][(winsInRound = 1 /\ mounted /\ mounted' /\ round' # round)
       => WithStatus(flags, "exiting") = {}]_vars

\* C22: the participant first in the round's order is never eliminated: it
\* is active in every state of the round, and whenever a winner has been
\* declared the winner is that participant, marked winner at position 1 of
\* the displayed participants.
C22_FirstInOrderWins ==
  Len(flags) > 0 =>
    /\ flags[1].status = "active"
    /\ uiFlags[1].code = flags[1].code
    /\ winner # Null =>
         (winner = flags[1].code /\ uiFlags[1].status = "winner")
    /\ \A i \in DOMAIN flags :
         flags[i].status \in {"exiting", "eliminated"} => i > 1

C22_Witness ==
  /\ round >= 2
  /\ winner # Null
  /\ flags[1].code = 2
  /\ winner = 2
  /\ winHistory[1] >= 1
  /\ WithStatus(flags, "eliminated") = {2}

====
